---- MODULE Spec2Model ----
(***************************************************************************)
(* A model of the faster-whisper-api repository.                           *)
(*                                                                         *)
(*   Spec     youtube_jobs.py: the status file job_status.json, the lock,  *)
(*            update_job_status / get_job_status and the pipeline          *)
(*            transcribe_youtube_video, run by concurrent threads, with    *)
(*            I/O failures and process crashes.                            *)
(*   SpecApi  whisper_api.py: the X-API-Key dependency verify_api_key in   *)
(*            front of POST /transcribe and GET /models.                   *)
(*   SpecStt  stt_utils.py: concurrent transcribe_youtube_video calls that *)
(*            share one output_dir.                                        *)
(***************************************************************************)
EXTENDS Naturals, FiniteSets, Sequences, TLC

\* ------------------------------------------------------------------ bounds

\* Process crashes (each followed by a restart) in one behaviour.
MaxCrashes == 1

\* ------------------------------------------------------- youtube_jobs.py

Threads == {"t1", "t2"}
Jobs == {"j1", "j2"}

\* A job id no update_job_status call is ever made for.
GhostJob == "j0"

NoThread == "free"
None == "none"

\* The strings the code stores are "queued", "processing", "done" and
\* "error", which stands for f"error: {str(e)}".

\* The dict of an absent status file: load_status returns {}.
EmptyStatus == [j \in Jobs |-> None]

VARIABLES
    file,        \* job_status.json: [state, content]
    lock,        \* threading.Lock: the holder, or NoThread
    pc,          \* per thread: position in update_job_status / the pipeline
    job,         \* per thread: job_id of the current (or last) call
    arg,         \* per thread: the `state` argument of the update in progress
    loaded,      \* per thread: the local dict `status` of update_job_status
    started,     \* per thread: this run's update to "processing" has returned
    media,       \* per job: transcriptions/<job_id>.<ext> exists
    transcript,  \* per job: transcriptions/<job_id>.txt: absent, empty, written
    acked,       \* per job: the state of the last update_job_status that returned
    crashed,     \* the process restarted and no call has begun since
    crashes,     \* crashes so far
    lastPoll     \* what the last get_job_status(GhostJob) call did

VARIABLES
    envKey,      \* os.getenv("WHISPER_API_KEY")
    req,         \* the request in flight: endpoint, header, upload fields
    apiPc,       \* the request's position
    response,    \* the HTTP status sent, or 0
    handlerRan,  \* the endpoint function was entered for this request
    tempFiles    \* temp files created by the handler and not yet unlinked

VARIABLES
    sttPc,       \* per execution: position in stt_utils.transcribe_youtube_video
    cleanup,     \* per execution: the cleanup_audio argument
    tempAudio,   \* output_dir/temp_audio.mp3: "absent" or the execution that wrote it
    heard,       \* per execution: whose download it transcribed
    removed,     \* per execution: whose download it unlinked
    clobbered    \* per execution: whose download its own download overwrote

jobVars == <<file, lock, pc, job, arg, loaded, started, media, transcript,
             acked, crashed, crashes, lastPoll>>
apiVars == <<envKey, req, apiPc, response, handlerRan, tempFiles>>
sttVars == <<sttPc, cleanup, tempAudio, heard, removed, clobbered>>
vars == <<jobVars, apiVars, sttVars>>

\* ---- the status file

\* json.load on the file: it raises on an empty or partly written file.
Parseable == file.state # "truncated"

\* load_status(): {} when the file does not exist, else the parsed dict.
LoadStatus == IF file.state = "valid" THEN file.content ELSE EmptyStatus

\* get_job_status(job_id): load_status().get(job_id, "not_found"); "raised"
\* when json.load raises.
GetJobStatus(j) ==
    IF ~Parseable THEN "raised"
    ELSE IF j \in Jobs /\ LoadStatus[j] # None THEN LoadStatus[j]
    ELSE "not_found"

\* ---- thread positions

\* "idle": no call made yet, or the last one was a direct update_job_status
\* call (the thread keeps nothing of it); "run_returned" / "run_raised": how
\* the thread's last transcribe_youtube_video ended.
Rest == {"idle", "run_returned", "run_raised"}
InUpdate(t) == pc[t] \in {"u_lock", "u_load", "u_open", "u_write"}
InRun(t) == pc[t] \notin Rest /\ arg[t] # "queued"

\* The update goes ahead without waiting for the lock.
CanAcquireUnlocked(t) == TRUE

\* `with lock:` blocks until the lock is free.
CanAcquire(t) == lock = NoThread

JobInit ==
    /\ file = [state |-> "absent", content |-> EmptyStatus]
    /\ lock = NoThread
    /\ pc = [t \in Threads |-> "idle"]
    /\ job = [t \in Threads |-> None]
    /\ arg = [t \in Threads |-> None]
    /\ loaded = [t \in Threads |-> EmptyStatus]
    /\ started = [t \in Threads |-> FALSE]
    /\ media = [j \in Jobs |-> FALSE]
    /\ transcript = [j \in Jobs |-> "absent"]
    /\ acked = [j \in Jobs |-> None]
    /\ crashed = FALSE
    /\ crashes = 0
    /\ lastPoll = None

\* An exception leaving update_job_status (the `with lock` block has released
\* the lock). Inside the try block of transcribe_youtube_video it enters the
\* except handler, which calls update_job_status(job_id, "error: ..."); raised
\* by that call it leaves transcribe_youtube_video; raised by a direct call it
\* reaches the caller.
UpdateRaises(t) ==
    /\ lock' = IF lock = t THEN NoThread ELSE lock
    /\ loaded' = [loaded EXCEPT ![t] = EmptyStatus]
    /\ IF arg[t] \in {"processing", "done"}
          THEN /\ pc' = [pc EXCEPT ![t] = "u_lock"]
               /\ arg' = [arg EXCEPT ![t] = "error"]
               /\ UNCHANGED job
          ELSE /\ pc' = [pc EXCEPT ![t] =
                            IF arg[t] = "queued" THEN "idle" ELSE "run_raised"]
               /\ arg' = [arg EXCEPT ![t] = None]
               /\ job' = [job EXCEPT ![t] =
                             IF arg[t] = "queued" THEN None ELSE job[t]]

\* An exception raised by a pipeline step inside the try block: the except
\* handler calls update_job_status(job_id, f"error: {str(e)}").
StepRaises(t) ==
    /\ pc' = [pc EXCEPT ![t] = "u_lock"]
    /\ arg' = [arg EXCEPT ![t] = "error"]

\* A caller outside the pipeline records a new job:
\* update_job_status(job_id, "queued").
Submit(t, j) ==
    /\ pc[t] \in Rest
    /\ pc' = [pc EXCEPT ![t] = "u_lock"]
    /\ job' = [job EXCEPT ![t] = j]
    /\ arg' = [arg EXCEPT ![t] = "queued"]
    /\ started' = [started EXCEPT ![t] = FALSE]
    /\ crashed' = FALSE
    /\ UNCHANGED <<file, lock, loaded, media, transcript, acked, crashes, lastPoll>>
    /\ UNCHANGED <<apiVars, sttVars>>

\* transcribe_youtube_video(job_id, url) is entered: its first statement is
\* update_job_status(job_id, "processing").
StartRun(t, j) ==
    /\ pc[t] \in Rest
    /\ pc' = [pc EXCEPT ![t] = "u_lock"]
    /\ job' = [job EXCEPT ![t] = j]
    /\ arg' = [arg EXCEPT ![t] = "processing"]
    /\ started' = [started EXCEPT ![t] = FALSE]
    /\ crashed' = FALSE
    /\ UNCHANGED <<file, lock, loaded, media, transcript, acked, crashes, lastPoll>>
    /\ UNCHANGED <<apiVars, sttVars>>

\* update_job_status: `with lock:`.
Acquire(t) ==
    /\ pc[t] = "u_lock"
    /\ CanAcquire(t)
    /\ lock' = t
    /\ pc' = [pc EXCEPT ![t] = "u_load"]
    /\ UNCHANGED <<file, job, arg, loaded, started, media, transcript, acked,
                   crashed, crashes, lastPoll>>
    /\ UNCHANGED <<apiVars, sttVars>>

\* update_job_status: status = load_status().
Load(t) ==
    /\ pc[t] = "u_load"
    /\ IF Parseable
          THEN /\ loaded' = [loaded EXCEPT ![t] = LoadStatus]
               /\ pc' = [pc EXCEPT ![t] = "u_open"]
               /\ UNCHANGED <<lock, job, arg>>
          ELSE UpdateRaises(t)
    /\ UNCHANGED <<file, started, media, transcript, acked, crashed,
                   crashes, lastPoll>>
    /\ UNCHANGED <<apiVars, sttVars>>

\* save_status: open(STATUS_FILE, "w") creates or truncates the file.
SaveOpen(t) ==
    /\ pc[t] = "u_open"
    /\ file' = [state |-> "truncated", content |-> EmptyStatus]
    /\ pc' = [pc EXCEPT ![t] = "u_write"]
    /\ UNCHANGED <<lock, job, arg, loaded, started, media, transcript, acked,
                   crashed, crashes, lastPoll>>
    /\ UNCHANGED <<apiVars, sttVars>>

\* save_status: open(STATUS_FILE, "w") raises; the file is left as it was.
SaveOpenFails(t) ==
    /\ pc[t] = "u_open"
    /\ UpdateRaises(t)
    /\ UNCHANGED <<file, started, media, transcript, acked, crashed,
                   crashes, lastPoll>>
    /\ UNCHANGED <<apiVars, sttVars>>

\* The position a returned update_job_status call continues at.
AfterUpdate(t) ==
    CASE arg[t] = "queued" -> "idle"
      [] arg[t] = "processing" -> "download"
      [] OTHER -> "run_returned"

\* update_job_status: status[job_id] = state; json.dump(status, f); the file
\* is closed, the lock released and the call returns. The written text reaches
\* the file when it is closed, and nothing reads the thread's state between
\* the close and the return, so the three are one step.
SaveWrite(t) ==
    /\ pc[t] = "u_write"
    /\ file' = [state |-> "valid",
                content |-> [loaded[t] EXCEPT ![job[t]] = arg[t]]]
    /\ lock' = IF lock = t THEN NoThread ELSE lock
    /\ acked' = [acked EXCEPT ![job[t]] = arg[t]]
    /\ pc' = [pc EXCEPT ![t] = AfterUpdate(t)]
    /\ started' = [started EXCEPT ![t] = started[t] \/ arg[t] = "processing"]
    /\ arg' = [arg EXCEPT ![t] = IF AfterUpdate(t) \in Rest THEN None ELSE arg[t]]
    /\ loaded' = [loaded EXCEPT ![t] = EmptyStatus]
    /\ job' = [job EXCEPT ![t] = IF AfterUpdate(t) = "idle" THEN None ELSE job[t]]
    /\ UNCHANGED <<media, transcript, crashed, crashes, lastPoll>>
    /\ UNCHANGED <<apiVars, sttVars>>

\* save_status: the write (or the flush on close) raises; the file stays
\* empty or partly written.
SaveWriteFails(t) ==
    /\ pc[t] = "u_write"
    /\ UpdateRaises(t)
    /\ UNCHANGED <<file, started, media, transcript, acked, crashed,
                   crashes, lastPoll>>
    /\ UNCHANGED <<apiVars, sttVars>>

\* ydl.extract_info(url, download=True): the media file
\* transcriptions/<job_id>.<ext> is written.
Download(t) ==
    /\ pc[t] = "download"
    /\ media' = [media EXCEPT ![job[t]] = TRUE]
    /\ pc' = [pc EXCEPT ![t] = "transcribe"]
    /\ UNCHANGED <<file, lock, job, arg, loaded, started, transcript, acked,
                   crashed, crashes, lastPoll>>
    /\ UNCHANGED <<apiVars, sttVars>>

\* The download raises (yt_dlp DownloadError).
DownloadFails(t) ==
    /\ pc[t] = "download"
    /\ StepRaises(t)
    /\ UNCHANGED <<file, lock, job, loaded, started, media, transcript, acked,
                   crashed, crashes, lastPoll>>
    /\ UNCHANGED <<apiVars, sttVars>>

\* WhisperModel("base", ...), model.transcribe(file_path) and the join of the
\* segments.
Transcribe(t) ==
    /\ pc[t] = "transcribe"
    /\ pc' = [pc EXCEPT ![t] = "t_open"]
    /\ UNCHANGED <<file, lock, job, arg, loaded, started, media, transcript,
                   acked, crashed, crashes, lastPoll>>
    /\ UNCHANGED <<apiVars, sttVars>>

\* The model load or the transcription raises.
TranscribeFails(t) ==
    /\ pc[t] = "transcribe"
    /\ StepRaises(t)
    /\ UNCHANGED <<file, lock, job, loaded, started, media, transcript, acked,
                   crashed, crashes, lastPoll>>
    /\ UNCHANGED <<apiVars, sttVars>>

\* open(f"{TRANSCRIPT_DIR}/{job_id}.txt", "w") creates or truncates the
\* transcript artifact.
TranscriptOpen(t) ==
    /\ pc[t] = "t_open"
    /\ transcript' = [transcript EXCEPT ![job[t]] = "empty"]
    /\ pc' = [pc EXCEPT ![t] = "t_write"]
    /\ UNCHANGED <<file, lock, job, arg, loaded, started, media, acked,
                   crashed, crashes, lastPoll>>
    /\ UNCHANGED <<apiVars, sttVars>>

\* The open raises; no artifact is created.
TranscriptOpenFails(t) ==
    /\ pc[t] = "t_open"
    /\ StepRaises(t)
    /\ UNCHANGED <<file, lock, job, loaded, started, media, transcript, acked,
                   crashed, crashes, lastPoll>>
    /\ UNCHANGED <<apiVars, sttVars>>

\* f.write(transcript) and the close; the next statement is
\* update_job_status(job_id, "done").
TranscriptWrite(t) ==
    /\ pc[t] = "t_write"
    /\ transcript' = [transcript EXCEPT ![job[t]] = "written"]
    /\ pc' = [pc EXCEPT ![t] = "u_lock"]
    /\ arg' = [arg EXCEPT ![t] = "done"]
    /\ UNCHANGED <<file, lock, job, loaded, started, media, acked, crashed,
                   crashes, lastPoll>>
    /\ UNCHANGED <<apiVars, sttVars>>

\* The write raises; the artifact stays as the open left it.
TranscriptWriteFails(t) ==
    /\ pc[t] = "t_write"
    /\ StepRaises(t)
    /\ UNCHANGED <<file, lock, job, loaded, started, media, transcript, acked,
                   crashed, crashes, lastPoll>>
    /\ UNCHANGED <<apiVars, sttVars>>

\* get_job_status(job_id) for an id that was never written, called from a
\* request thread: it takes no lock. (What a poll of a written id returns is
\* GetJobStatus of the state.)
Poll(j) ==
    /\ lastPoll' = GetJobStatus(j)
    /\ UNCHANGED <<file, lock, pc, job, arg, loaded, started, media,
                   transcript, acked, crashed, crashes>>
    /\ UNCHANGED <<apiVars, sttVars>>

\* The process dies and is started again: every thread, the lock and every
\* local are gone; the files stay as they are on disk.
Crash ==
    /\ crashes < MaxCrashes
    /\ crashes' = crashes + 1
    /\ crashed' = TRUE
    /\ lock' = NoThread
    /\ pc' = [t \in Threads |-> "idle"]
    /\ job' = [t \in Threads |-> None]
    /\ arg' = [t \in Threads |-> None]
    /\ loaded' = [t \in Threads |-> EmptyStatus]
    /\ started' = [t \in Threads |-> FALSE]
    /\ lastPoll' = None
    /\ UNCHANGED <<file, media, transcript, acked>>
    /\ UNCHANGED <<apiVars, sttVars>>

JobNext ==
    \/ \E t \in Threads, j \in Jobs : Submit(t, j)
    \/ \E t \in Threads, j \in Jobs : StartRun(t, j)
    \/ \E t \in Threads : Acquire(t)
    \/ \E t \in Threads : Load(t)
    \/ \E t \in Threads : SaveOpen(t)
    \/ \E t \in Threads : SaveOpenFails(t)
    \/ \E t \in Threads : SaveWrite(t)
    \/ \E t \in Threads : SaveWriteFails(t)
    \/ \E t \in Threads : Download(t)
    \/ \E t \in Threads : DownloadFails(t)
    \/ \E t \in Threads : Transcribe(t)
    \/ \E t \in Threads : TranscribeFails(t)
    \/ \E t \in Threads : TranscriptOpen(t)
    \/ \E t \in Threads : TranscriptOpenFails(t)
    \/ \E t \in Threads : TranscriptWrite(t)
    \/ \E t \in Threads : TranscriptWriteFails(t)
    \/ \E j \in {GhostJob} : Poll(j)
    \/ Crash

\* ------------------------------------------- properties of youtube_jobs.py

RunEnded(t) == pc[t] \in {"run_returned", "run_raised"}

\* Another thread is inside a transcribe_youtube_video run for t's job.
OtherRunOn(t) == \E u \in Threads \ {t} : InRun(u) /\ job[u] = job[t]

\* The status machine of the specification: queued -> processing ->
\* {done | error} and queued -> error. (The first write for a job, whatever
\* it writes, is not judged.)
PermittedStep ==
    {<<"queued", "processing">>, <<"queued", "error">>,
     <<"processing", "done">>, <<"processing", "error">>}

\* C1: the status a poll returns for a job only ever moves along
\* queued -> processing -> {done | error}: each change of the status last
\* written for a job (what get_job_status returns once the update has
\* returned) is a permitted step, never a revert and never a step out of done
\* or error.
C1_StatusMonotonic ==
    [][\A j \in Jobs :
          (acked[j] # None /\ acked'[j] # acked[j]) =>
              <<acked[j], acked'[j]>> \in PermittedStep]_vars

\* C2: a run whose job was set to processing never ends by raising, and once
\* it has ended (and no other run of the job is under way) the job is not
\* recorded as processing.
C2_FailureBecomesError ==
    \A t \in Threads :
        (RunEnded(t) /\ started[t]) =>
            /\ pc[t] # "run_raised"
            /\ (~OtherRunOn(t) => GetJobStatus(job[t]) # "processing")

\* C3: the transcript artifact of a job exists if and only if the job's
\* stored status is done.
C3_ResultIffDone ==
    \A j \in Jobs : (transcript[j] # "absent") <=> (GetJobStatus(j) = "done")

\* C4: a poll for a job id that was never written returns "not_found" and
\* never raises.
C4_GhostPollNotFound == lastPoll \in {None, "not_found"}

\* C5: an update_job_status call whose state is not a permitted successor of
\* the job's current status never gets as far as rewriting the status file.
C5_InvalidTransitionRejected ==
    \A t \in Threads :
        (pc[t] = "u_write" /\ loaded[t][job[t]] \notin {None, arg[t]}) =>
            <<loaded[t][job[t]], arg[t]>> \in PermittedStep

\* C6: after a crash and restart, load_status returns for every job the last
\* status whose update had returned.
C6_CrashKeepsAcked ==
    crashed => \A j \in Jobs : acked[j] # None => GetJobStatus(j) = acked[j]

\* C8: when no update_job_status call is in progress and no save was cut
\* short (the file parses), the status file holds for every job the state of
\* the last update made to it: no update is lost, whatever the interleaving.
C8_NoLostUpdate ==
    ((\A t \in Threads : ~InUpdate(t)) /\ Parseable) =>
        \A j \in Jobs : LoadStatus[j] = acked[j]

\* Two runs on distinct jobs, in two threads, have both completed.
C8_Witness ==
    /\ \A t \in Threads : pc[t] = "run_returned"
    /\ job["t1"] # job["t2"]
    /\ Parseable
    /\ \A j \in Jobs : LoadStatus[j] = "done"

\* C9: when a run has ended (and no other run of the job is under way), the
\* media file downloaded for the job no longer exists.
C9_MediaReleased ==
    \A t \in Threads : (RunEnded(t) /\ ~OtherRunOn(t)) => ~media[job[t]]

\* --------------------------------------------------------- whisper_api.py

\* os.getenv("WHISPER_API_KEY"): "unset" stands for None (the variable is not
\* in the environment); it may also be set to the empty string.
EnvKeys == {"unset", "", "k1", "k2"}

\* The X-API-Key header of a request: absent, or its value.
Absent == "absent"
Headers == {Absent, "", "k1", "k2"}

Endpoints == {"transcribe", "models"}

\* The upload of a POST /transcribe request: no file part at all, a file part
\* with an empty filename, or a named file; the suffix of the name; whether
\* file.size exceeds MAX_FILE_SIZE; the model query parameter.
Requests ==
    [endpoint : Endpoints, header : Headers,
     filename : {"missing", "", "named"}, ext : {".mp3", ".exe"},
     big : BOOLEAN, model : {"base", "huge"}]

SUPPORTED_FORMATS == {".mp3", ".wav", ".m4a", ".flac", ".ogg", ".wma", ".aac"}
valid_models == {"tiny", "base", "small", "medium", "large"}

\* x_api_key: str = Header(...): the header is required; the framework answers
\* a request without it 422 and does not call verify_api_key.
HeaderBound(r) == r.header # Absent

\* verify_api_key passes: not (not expected_key or x_api_key != expected_key).
KeyAccepted(expected_key, x_api_key) ==
    ~(expected_key \in {"unset", ""} \/ x_api_key # expected_key)

\* No request has arrived yet.
NoRequest ==
    [endpoint |-> None, header |-> Absent, filename |-> "missing",
     ext |-> ".mp3", big |-> FALSE, model |-> "base"]

ApiInit ==
    /\ envKey \in EnvKeys
    /\ req = NoRequest
    /\ apiPc = "idle"
    /\ response = 0
    /\ handlerRan = FALSE
    /\ tempFiles = 0

Respond(code) ==
    /\ response' = code
    /\ apiPc' = "done"

\* A request reaches a protected route.
Arrive(r) ==
    /\ apiPc \in {"idle", "done"}
    /\ req' = r
    /\ apiPc' = "depends"
    /\ response' = 0
    /\ handlerRan' = FALSE
    /\ UNCHANGED <<envKey, tempFiles>>
    /\ UNCHANGED <<jobVars, sttVars>>

\* dependencies=[Depends(verify_api_key)]: the dependency's own parameter is
\* bound first, then verify_api_key is called.
VerifyApiKey ==
    /\ apiPc = "depends"
    /\ IF ~HeaderBound(req) THEN Respond(422)
       ELSE IF ~KeyAccepted(envKey, req.header) THEN Respond(403)
       ELSE /\ apiPc' = "bind"
            /\ UNCHANGED response
    /\ UNCHANGED <<envKey, req, handlerRan, tempFiles>>
    /\ UNCHANGED <<jobVars, sttVars>>

\* The route's own parameters are bound (file: UploadFile = File(...) is
\* required) and the endpoint function is entered. list_models returns at once.
EnterHandler ==
    /\ apiPc = "bind"
    /\ IF req.endpoint = "transcribe" /\ req.filename = "missing"
          THEN Respond(422) /\ UNCHANGED handlerRan
          ELSE /\ handlerRan' = TRUE
               /\ IF req.endpoint = "models" THEN Respond(200)
                  ELSE apiPc' = "validate" /\ UNCHANGED response
    /\ UNCHANGED <<envKey, req, tempFiles>>
    /\ UNCHANGED <<jobVars, sttVars>>

\* transcribe_audio: the filename, extension, size and model checks, then
\* tempfile.NamedTemporaryFile(delete=False, suffix=file_ext).
Validate ==
    /\ apiPc = "validate"
    /\ IF req.filename = "" THEN Respond(400) /\ UNCHANGED tempFiles
       ELSE IF req.ext \notin SUPPORTED_FORMATS THEN Respond(400) /\ UNCHANGED tempFiles
       ELSE IF req.big THEN Respond(413) /\ UNCHANGED tempFiles
       ELSE IF req.model \notin valid_models THEN Respond(400) /\ UNCHANGED tempFiles
       ELSE /\ tempFiles' = tempFiles + 1
            /\ apiPc' = "transcribe"
            /\ UNCHANGED response
    /\ UNCHANGED <<envKey, req, handlerRan>>
    /\ UNCHANGED <<jobVars, sttVars>>

\* transcribe_audio: the upload is copied to the temp file and transcribed;
\* the finally block unlinks the temp file on either outcome.
TranscribeUpload(ok) ==
    /\ apiPc = "transcribe"
    /\ tempFiles' = tempFiles - 1
    /\ Respond(IF ok THEN 200 ELSE 500)
    /\ UNCHANGED <<envKey, req, handlerRan>>
    /\ UNCHANGED <<jobVars, sttVars>>

ApiNext ==
    \/ \E r \in Requests : Arrive(r)
    \/ VerifyApiKey
    \/ EnterHandler
    \/ Validate
    \/ \E ok \in BOOLEAN : TranscribeUpload(ok)

\* The request in flight presents the configured key.
KeyConfigured == envKey \notin {"unset", ""}
PresentsKey == KeyConfigured /\ req.header = envKey

\* C7: a request to a protected endpoint that does not present the configured
\* key (none is configured, or X-API-Key differs from it) is answered 403 and
\* the endpoint function never runs; it runs only for a request that presents
\* the configured key.
C7_ForbiddenWithoutKey ==
    /\ handlerRan => PresentsKey
    /\ (apiPc = "done" /\ ~PresentsKey) => (response = 403 /\ ~handlerRan)

\* ----------------------------------------------------------- stt_utils.py

\* Two calls of transcribe_youtube_video(url, output_dir, ...) with the same
\* output_dir, each in a thread of its own.
Execs == {"e1", "e2"}

SttInit ==
    /\ sttPc = [e \in Execs |-> "idle"]
    /\ cleanup = [e \in Execs |-> FALSE]
    /\ tempAudio = "absent"
    /\ heard = [e \in Execs |-> None]
    /\ removed = [e \in Execs |-> None]
    /\ clobbered = [e \in Execs |-> None]

\* The execution has downloaded its audio and not yet finished with it.
HoldsAudio(e) == sttPc[e] \in {"exists", "transcribe", "cleanup"}

\* transcribe_youtube_video(url, output_dir, cleanup_audio=c) is called.
SttCall(e, c) ==
    /\ sttPc[e] = "idle"
    /\ sttPc' = [sttPc EXCEPT ![e] = "download"]
    /\ cleanup' = [cleanup EXCEPT ![e] = c]
    /\ UNCHANGED <<tempAudio, heard, removed, clobbered>>
    /\ UNCHANGED <<jobVars, apiVars>>

\* download_youtube_audio: ydl.extract_info(url, download=True) with outtmpl
\* output_dir/temp_audio.%(ext)s and the mp3 postprocessor: the download is
\* written to output_dir/temp_audio.mp3, replacing what is there.
SttDownload(e) ==
    /\ sttPc[e] = "download"
    /\ tempAudio' = e
    /\ clobbered' = [clobbered EXCEPT ![e] =
                        IF tempAudio \in Execs \ {e} /\ HoldsAudio(tempAudio)
                           THEN tempAudio ELSE clobbered[e]]
    /\ sttPc' = [sttPc EXCEPT ![e] = "exists"]
    /\ UNCHANGED <<cleanup, heard, removed>>
    /\ UNCHANGED <<jobVars, apiVars>>

\* The download raises: Exception("Failed to download video: ...") reaches the
\* except block of transcribe_youtube_video.
SttDownloadFails(e) ==
    /\ sttPc[e] = "download"
    /\ sttPc' = [sttPc EXCEPT ![e] = "handler"]
    /\ UNCHANGED <<cleanup, tempAudio, heard, removed, clobbered>>
    /\ UNCHANGED <<jobVars, apiVars>>

\* download_youtube_audio: if not audio_file.exists(): raise FileNotFoundError.
SttExists(e) ==
    /\ sttPc[e] = "exists"
    /\ sttPc' = [sttPc EXCEPT ![e] =
                    IF tempAudio = "absent" THEN "handler" ELSE "transcribe"]
    /\ UNCHANGED <<cleanup, tempAudio, heard, removed, clobbered>>
    /\ UNCHANGED <<jobVars, apiVars>>

\* transcribe_audio_file(audio_file, model_name): the model reads
\* output_dir/temp_audio.mp3 as it is now; a missing file raises.
SttTranscribe(e) ==
    /\ sttPc[e] = "transcribe"
    /\ IF tempAudio = "absent"
          THEN /\ sttPc' = [sttPc EXCEPT ![e] = "handler"]
               /\ UNCHANGED heard
          ELSE /\ heard' = [heard EXCEPT ![e] = tempAudio]
               /\ sttPc' = [sttPc EXCEPT ![e] = "cleanup"]
    /\ UNCHANGED <<cleanup, tempAudio, removed, clobbered>>
    /\ UNCHANGED <<jobVars, apiVars>>

\* The model load or the transcription raises.
SttTranscribeFails(e) ==
    /\ sttPc[e] = "transcribe"
    /\ sttPc' = [sttPc EXCEPT ![e] = "handler"]
    /\ UNCHANGED <<cleanup, tempAudio, heard, removed, clobbered>>
    /\ UNCHANGED <<jobVars, apiVars>>

\* unlink of output_dir/temp_audio.mp3 by execution e, when the file is there.
Unlink(e) ==
    IF tempAudio = "absent"
       THEN UNCHANGED <<tempAudio, removed>>
       ELSE /\ removed' = [removed EXCEPT ![e] = tempAudio]
            /\ tempAudio' = "absent"

\* if cleanup_audio: try: audio_file.unlink() except Exception: log(...);
\* then return result.
SttCleanup(e) ==
    /\ sttPc[e] = "cleanup"
    /\ IF cleanup[e] THEN Unlink(e) ELSE UNCHANGED <<tempAudio, removed>>
    /\ sttPc' = [sttPc EXCEPT ![e] = "returned"]
    /\ UNCHANGED <<cleanup, heard, clobbered>>
    /\ UNCHANGED <<jobVars, apiVars>>

\* except Exception as e: if cleanup_audio and temp_audio.exists():
\* temp_audio.unlink(); raise e.
SttHandler(e) ==
    /\ sttPc[e] = "handler"
    /\ IF cleanup[e] THEN Unlink(e) ELSE UNCHANGED <<tempAudio, removed>>
    /\ sttPc' = [sttPc EXCEPT ![e] = "raised"]
    /\ UNCHANGED <<cleanup, heard, clobbered>>
    /\ UNCHANGED <<jobVars, apiVars>>

SttNext ==
    \/ \E e \in Execs, c \in BOOLEAN : SttCall(e, c)
    \/ \E e \in Execs : SttDownload(e)
    \/ \E e \in Execs : SttDownloadFails(e)
    \/ \E e \in Execs : SttExists(e)
    \/ \E e \in Execs : SttTranscribe(e)
    \/ \E e \in Execs : SttTranscribeFails(e)
    \/ \E e \in Execs : SttCleanup(e)
    \/ \E e \in Execs : SttHandler(e)

\* C10: of two concurrent pipeline executions, neither reads, overwrites or
\* deletes the temporary media file the other downloaded.
C10_TempMediaPrivate ==
    \A e \in Execs :
        /\ heard[e] \in {None, e}
        /\ removed[e] \in {None, e}
        /\ clobbered[e] = None

\* The whole program at start, under any WHISPER_API_KEY.
InitAnyKey == JobInit /\ ApiInit /\ SttInit

\* The same with WHISPER_API_KEY unset, where the key plays no part.
Init == InitAnyKey /\ envKey = "unset"

Next == JobNext

\* youtube_jobs.py
Spec == Init /\ [][Next]_vars

\* whisper_api.py
SpecApi == InitAnyKey /\ [][ApiNext]_vars

\* stt_utils.py
SpecStt == Init /\ [][SttNext]_vars
====
